---- MODULE Spec2Model ----
(***************************************************************************)
(* Canonical Huffman codes: the Encoder (encoder.go), the Decoder          *)
(* (decoder.go) and the Code primitives of package huffman.                *)
(*                                                                         *)
(* A Go slice indexed by Symbol 0..n-1 is a sequence indexed 1..n, so      *)
(* symbol s lives at position s+1.  A Code is a record [Size, Bits].  A    *)
(* map[Code]decoderData is a function whose DOMAIN is the set of keys.     *)
(* Every constructor is an operator returning [out, ...] where out is      *)
(* "ok" (nil error), "error" (non-nil error) or "panic" (run-time panic).  *)
(***************************************************************************)
EXTENDS Integers, Sequences, FiniteSets, TLC

VARIABLES
    input,  \* the caller's argument: a length sequence, or (numSymbols, frequencies)
    d,      \* the Decoder instance
    dOp,    \* the operation that last targeted d: "none", "Init", "Encoder.Decoder"
    dOut,   \* its outcome: "none", "ok", "error", "panic"
    e,      \* the Encoder instance
    eOp,    \* "none", "Init", "InitFromSizes", "Decoder.Encoder"
    eOut,   \* "none", "ok", "error", "panic"
    dFrom,  \* the Encoder that d mirrors, when dOp = "Encoder.Decoder"
    eFrom,  \* the Decoder that e mirrors, when eOp = "Decoder.Encoder"
    ret,    \* what the last read call (Decode, Encode) returned
    held,   \* the []byte slice the caller took to write to, and whether it
            \* shares its backing array with d.sizes
    reader, \* the streaming reader: the code it has read so far, what Decode
            \* returned for it, and the bounds of the partial results before
    refill, \* the table of d filled again, in another order of the symbols:
            \* by fillTable, and by the walk that never stops early
    pass,   \* firstPass at work on input.frequencies: its heap, its synthetic
            \* symbols, and the two nodes it popped last
    hist    \* Decoder.Init past its first loop: the histogram of the lengths
            \* of a long argument, and what Init returns for it

vars == <<input, d, dOp, dOut, e, eOp, eOut, dFrom, eFrom, ret, held, reader, refill, pass, hist>>

----------------------------------------------------------------------------
(* Program constants *)

maxBitsPerCode == 15

InvalidSymbol == -1

----------------------------------------------------------------------------
(* Bounds of the model *)

\* small length sequences: every sequence of at most MaxSyms lengths in 0..MaxSmallSize
MaxSyms == 4
MaxSmallSize == 3
\* edge length sequences: at most MaxEdgeSyms lengths drawn from EdgeSizes
MaxEdgeSyms == 3
\* chain sequences <<1,2,...,k,k>> and <<k,k,...,2,1>> for k up to MaxChain
MaxChain == 16
\* small frequency inputs: numSymbols up to MaxFreqSyms, frequencies in 0..MaxFreq
MaxFreqSyms == 3
MaxFreq == 2
\* skewed frequency inputs: the first n Fibonacci numbers, n up to MaxFib
MaxFib == 17
\* codes handed to Decode: every code of at most MaxProbeSize bits
MaxProbeSize == 2
\* the caller that re-initializes an instance or overwrites a slice: at most
\* MaxCallerSyms symbols
MaxCallerSyms == 3

\* the largest number of symbols whose table is filled again in every order
MaxRefillSyms == 6

\* the largest number of symbols with frequencies at the top of the range
MaxBigSyms == 4

\* the longest length in the histograms of long arguments
MaxHistSize == 3

----------------------------------------------------------------------------
(* Bit arithmetic on unsigned words *)

\* 1 << n
Pow2(n) == 2 ^ n

Min(a, b) == IF a < b THEN a ELSE b

Max(a, b) == IF a < b THEN b ELSE a

\* bit i of the word bits
BitAt(bits, i) == (bits \div Pow2(i)) % 2

\* bits ^ bit, where bit = 1 << i
XorBit(bits, i) == IF BitAt(bits, i) = 1 THEN bits - Pow2(i) ELSE bits + Pow2(i)

\* bits &^ bit, where bit = 1 << i
AndNotBit(bits, i) == IF BitAt(bits, i) = 1 THEN bits - Pow2(i) ELSE bits

\* mathbits.Reverse32(bits) >> (32 - size): bit i of bits, for 0 <= i < size,
\* lands at position size-1-i; the bits at positions >= size are shifted out.
\* Computed by halves, as Reverse32 swaps them: the low h bits, reversed, go
\* above the remaining size-h bits, reversed.
RECURSIVE reverseBits(_, _)
reverseBits(size, bits) ==
    IF size = 0 THEN 0
    ELSE IF size = 1 THEN bits % 2
    ELSE LET h == size \div 2
         IN  reverseBits(h, bits % Pow2(h)) * Pow2(size - h)
             + reverseBits(size - h, bits \div Pow2(h))

----------------------------------------------------------------------------
(* Loops *)

\* "for !Done(st) { st = Step(st) }": st is the record of the variables the
\* loop reads and writes, Step one iteration, Done the exit test.  The
\* iterations are run in blocks of two halves: with more = FALSE at most 2^k
\* of them, with more = TRUE 2^k of them, then 2^(k+1), and so on until Done.
RECURSIVE Loop(_, _, _, _, _)
Loop(Step(_), Done(_), st, k, more) ==
    IF Done(st) THEN st
    ELSE IF k = 0 /\ ~more THEN Step(st)
    ELSE Loop(Step, Done,
              Loop(Step, Done, st, IF more THEN k ELSE k - 1, FALSE),
              IF more THEN k + 1 ELSE k - 1, more)

----------------------------------------------------------------------------
(* Code *)

MakeCode(size, bits) == [Size |-> size, Bits |-> bits]

\* mutant: the reversal is forgotten
MakeReversedCodeNotReversed(size, bits) == MakeCode(size, bits)

MakeReversedCode(size, bits) == MakeCode(size, reverseBits(size, bits))

\* Code.Reversed
Reversed(hc) == MakeReversedCode(hc.Size, hc.Bits)

\* the zero value of Code
ZeroCode == MakeCode(0, 0)

----------------------------------------------------------------------------
(* 32-bit unsigned words that may exceed the checker's integers: two 16-bit halves *)

Half == Pow2(16)

U32(n) == [hi |-> n \div Half, lo |-> n % Half]

MaxUint32 == [hi |-> Half - 1, lo |-> Half - 1]

\* a + b on uint32: wraps modulo 2^32
U32Add(a, b) ==
    LET lo == a.lo + b.lo
        hi == a.hi + b.hi + (lo \div Half)
    IN  [hi |-> hi % Half, lo |-> lo % Half]

\* a uint32 below 2^31 as a number
U32Value(a) == a.hi * Half + a.lo

\* a < b on uint32
U32Less(a, b) == a.hi < b.hi \/ (a.hi = b.hi /\ a.lo < b.lo)

\* math.MinInt32, the 0'th synthetic symbol
MinInt32 == (-2147483647) - 1

\* uint32(a) < uint32(b) for int32 a, b: the negative values convert to the
\* upper half of the unsigned range
SymbolLessAsUint32(a, b) == IF (a < 0) = (b < 0) THEN a < b ELSE b < 0

----------------------------------------------------------------------------
(* Decoder *)

decoderData(symbol, minSize, maxSize) ==
    [symbol |-> symbol, minSize |-> minSize, maxSize |-> maxSize]

\* the zero value Decoder{}: nil table, nil sizes
ZeroDecoder == [table |-> <<>>, sizes |-> <<>>, minSize |-> 0, maxSize |-> 0]

\* table[hc] = dd
TablePut(table, hc, dd) == (hc :> dd) @@ table

\* the exit test of the loop of fillTable: "for hc.Size != 0", or the break
fillDone(st) == st.brk \/ st.hc.Size = 0

\* mutant: the walk stops at the first prefix that is already stored, whatever
\* summary it holds
fillStepBreakOnFound(st) ==
    LET i == st.hc.Size - 1
        sibling == [st.hc EXCEPT !.Bits = XorBit(@, i)]
        ddNew ==
            IF sibling \in DOMAIN st.table
            THEN decoderData(InvalidSymbol,
                             Min(st.dd.minSize, st.table[sibling].minSize),
                             Max(st.dd.maxSize, st.table[sibling].maxSize))
            ELSE decoderData(InvalidSymbol, st.dd.minSize, st.dd.maxSize)
        parent == MakeCode(st.hc.Size - 1, AndNotBit(sibling.Bits, i))
    IN  IF parent \in DOMAIN st.table
        THEN [st EXCEPT !.brk = TRUE]
        ELSE [table |-> TablePut(st.table, parent, ddNew),
              hc |-> parent, dd |-> ddNew, brk |-> FALSE]

\* mutant: the summary of a prefix is that of the code stored last below it,
\* the sibling is not looked at
fillStepNoMerge(st) ==
    LET i == st.hc.Size - 1
        sibling == [st.hc EXCEPT !.Bits = XorBit(@, i)]
        ddNew == decoderData(InvalidSymbol, st.dd.minSize, st.dd.maxSize)
        parent == MakeCode(st.hc.Size - 1, AndNotBit(sibling.Bits, i))
    IN  IF parent \in DOMAIN st.table /\ st.table[parent] = ddNew
        THEN [st EXCEPT !.brk = TRUE]
        ELSE [table |-> TablePut(st.table, parent, ddNew),
              hc |-> parent, dd |-> ddNew, brk |-> FALSE]

\* mutant: the walk stops as soon as the stored summary has the same maxSize
fillStepBreakOnMaxSize(st) ==
    LET i == st.hc.Size - 1
        sibling == [st.hc EXCEPT !.Bits = XorBit(@, i)]
        ddNew ==
            IF sibling \in DOMAIN st.table
            THEN decoderData(InvalidSymbol,
                             Min(st.dd.minSize, st.table[sibling].minSize),
                             Max(st.dd.maxSize, st.table[sibling].maxSize))
            ELSE decoderData(InvalidSymbol, st.dd.minSize, st.dd.maxSize)
        parent == MakeCode(st.hc.Size - 1, AndNotBit(sibling.Bits, i))
    IN  IF parent \in DOMAIN st.table /\ st.table[parent].maxSize = ddNew.maxSize
        THEN [st EXCEPT !.brk = TRUE]
        ELSE [table |-> TablePut(st.table, parent, ddNew),
              hc |-> parent, dd |-> ddNew, brk |-> FALSE]

\* one iteration of the loop of fillTable: st.hc is the code just stored,
\* st.dd its entry, st.brk whether the loop was left by break
fillStep(st) ==
    LET i == st.hc.Size - 1
        sibling == [st.hc EXCEPT !.Bits = XorBit(@, i)]
        ddNew ==
            IF sibling \in DOMAIN st.table
            THEN decoderData(InvalidSymbol,
                             Min(st.dd.minSize, st.table[sibling].minSize),
                             Max(st.dd.maxSize, st.table[sibling].maxSize))
            ELSE decoderData(InvalidSymbol, st.dd.minSize, st.dd.maxSize)
        parent == MakeCode(st.hc.Size - 1, AndNotBit(sibling.Bits, i))
    IN  IF parent \in DOMAIN st.table /\ st.table[parent] = ddNew
        THEN [st EXCEPT !.brk = TRUE]
        ELSE [table |-> TablePut(st.table, parent, ddNew),
              hc |-> parent, dd |-> ddNew, brk |-> FALSE]

\* the loop of fillTable: hc is the code just stored, dd its entry
fillLoop(table, hc, dd) ==
    Loop(fillStep, fillDone, [table |-> table, hc |-> hc, dd |-> dd, brk |-> FALSE], 0, TRUE).table

\* fillTable without its break: every prefix of hc down to the empty code is
\* recomputed and stored
fillStepWalk(st) ==
    LET i == st.hc.Size - 1
        sibling == [st.hc EXCEPT !.Bits = XorBit(@, i)]
        ddNew ==
            IF sibling \in DOMAIN st.table
            THEN decoderData(InvalidSymbol,
                             Min(st.dd.minSize, st.table[sibling].minSize),
                             Max(st.dd.maxSize, st.table[sibling].maxSize))
            ELSE decoderData(InvalidSymbol, st.dd.minSize, st.dd.maxSize)
        parent == MakeCode(st.hc.Size - 1, AndNotBit(sibling.Bits, i))
    IN  [table |-> TablePut(st.table, parent, ddNew),
         hc |-> parent, dd |-> ddNew, brk |-> FALSE]

fillTableWalk(table, symbol, hc) ==
    LET dd == decoderData(symbol, hc.Size, hc.Size)
    IN  Loop(fillStepWalk, fillDone,
             [table |-> TablePut(table, hc, dd), hc |-> hc, dd |-> dd, brk |-> FALSE],
             0, TRUE).table

\* mutant: only the full code is stored, none of its prefixes
fillTableLeafOnly(table, symbol, hc) ==
    TablePut(table, hc, decoderData(symbol, hc.Size, hc.Size))

fillTable(table, symbol, hc) ==
    LET dd == decoderData(symbol, hc.Size, hc.Size)
    IN  fillLoop(TablePut(table, hc, dd), hc, dd)

\* the index set of a Go array [maxBitsPerCode]uint32
ArrayIndex == 0 .. (maxBitsPerCode - 1)

\* Decoder.Init, first loop, one iteration: symbol st.symbol is counted in the
\* histogram of the nonzero sizes, and minSize, maxSize follow.  An index
\* outside ArrayIndex is a run-time panic.
countSize(sizes, st) ==
    LET size == sizes[st.symbol + 1]
    IN  IF size = 0 THEN [st EXCEPT !.symbol = @ + 1]
        ELSE IF size > maxBitsPerCode THEN [st EXCEPT !.out = "error"]
        ELSE IF size \notin ArrayIndex THEN [st EXCEPT !.out = "panic"]
        ELSE [symbol |-> st.symbol + 1,
              out |-> "ok",
              countArray |-> [st.countArray EXCEPT ![size] = @ + 1],
              n |-> st.n + 1,
              minSize |-> IF st.n = 0 \/ st.minSize > size
                          THEN size ELSE st.minSize,
              maxSize |-> IF st.n = 0 \/ (st.minSize <= size /\ st.maxSize < size)
                          THEN size ELSE st.maxSize]

\* Decoder.Init, first loop: it ends with the last symbol, or by return or panic
countSizes(sizes, st) ==
    Loop(LAMBDA s : countSize(sizes, s),
         LAMBDA s : s.out # "ok" \/ s.symbol >= Len(sizes), st, 0, TRUE)

\* Decoder.Init, second loop, one iteration: the first canonical code of
\* length st.bits, "code = (code + countArray[bits-1]) << 1" on uint32
nextCodeStep(countArray, st) ==
    IF (st.bits - 1) \notin ArrayIndex \/ st.bits \notin ArrayIndex
    THEN [st EXCEPT !.out = "panic"]
    ELSE LET sum == U32Add(st.code, U32(countArray[st.bits - 1]))
             code == U32Add(sum, sum)
         IN  [out |-> "ok", bits |-> st.bits + 1, code |-> code,
              nextCodeArray |-> [st.nextCodeArray EXCEPT ![st.bits] = code]]

\* Decoder.Init, second loop: the first canonical code of each length
nextCodes(countArray, maxSize, st) ==
    Loop(LAMBDA s : nextCodeStep(countArray, s),
         LAMBDA s : s.out # "ok" \/ s.bits > maxSize, st, 0, TRUE)

\* Decoder.Init, third loop, one iteration: symbol st.symbol, if live, is
\* handed its code and the table is filled
fillSymbol(sizes, st) ==
    LET size == sizes[st.symbol + 1]
    IN  IF size = 0 THEN [st EXCEPT !.symbol = @ + 1]
        ELSE [symbol |-> st.symbol + 1,
              nextCodeArray |-> [st.nextCodeArray EXCEPT ![size] = U32Add(@, U32(1))],
              table |-> fillTable(st.table, st.symbol,
                                  MakeReversedCode(size, U32Value(st.nextCodeArray[size])))]

\* Decoder.Init, third loop: hand each live symbol its code and fill the table
fillSymbols(sizes, symbol, nextCodeArray, table) ==
    Loop(LAMBDA s : fillSymbol(sizes, s),
         LAMBDA s : s.symbol >= Len(sizes),
         [symbol |-> symbol, nextCodeArray |-> nextCodeArray, table |-> table], 0, TRUE).table

\* Decoder.Init, from the histogram on: the first codes of each length, the
\* code space they consume as a uint32, and the test for degenerate codes
checkCodes(countArray, minSize, maxSize) ==
    LET nc == nextCodes(countArray, maxSize,
                        [out |-> "ok", bits |-> minSize, code |-> U32(0),
                         nextCodeArray |-> [i \in ArrayIndex |-> U32(0)]])
    IN  IF nc.out # "ok" \/ maxSize \notin ArrayIndex
        THEN [out |-> "panic", nextCodeArray |-> nc.nextCodeArray]
        ELSE LET code == U32Add(nc.code, U32(countArray[maxSize]))
             IN  IF ~(code = U32(1) /\ maxSize = 1) /\ code # U32(Pow2(maxSize))
                 THEN [out |-> "error", nextCodeArray |-> nc.nextCodeArray]
                 ELSE [out |-> "ok", nextCodeArray |-> nc.nextCodeArray]

\* Decoder.Init: [out, d], d the instance afterwards.  old is the instance before.
DecoderInit(old, sizes) ==
    LET zero == [i \in ArrayIndex |-> 0]
        cnt == countSizes(sizes,
                 [symbol |-> 0, out |-> "ok", countArray |-> zero, n |-> 0,
                  minSize |-> 0, maxSize |-> 0])
    IN  IF cnt.out # "ok" THEN [out |-> cnt.out, d |-> old]
        ELSE IF cnt.n = 0 THEN [out |-> "ok", d |-> ZeroDecoder]
        ELSE LET chk == checkCodes(cnt.countArray, cnt.minSize, cnt.maxSize)
             IN  IF chk.out # "ok" THEN [out |-> chk.out, d |-> old]
                 ELSE [out |-> "ok",
                       d |-> [table |-> fillSymbols(sizes, 0, chk.nextCodeArray, <<>>),
                              sizes |-> sizes,
                              minSize |-> cnt.minSize,
                              maxSize |-> cnt.maxSize]]

\* Decoder.Decode: <<symbol, minSize, maxSize>>
Decode(dec, hc) ==
    IF hc \notin DOMAIN dec.table THEN <<InvalidSymbol, 0, 0>>
    ELSE <<dec.table[hc].symbol, dec.table[hc].minSize, dec.table[hc].maxSize>>

DecoderMinSize(dec) == dec.minSize

DecoderMaxSize(dec) == dec.maxSize

\* Decoder.NumSymbols
DecoderNumSymbols(dec) == Len(dec.sizes)

\* Decoder.MaxSymbol
DecoderMaxSymbol(dec) == Len(dec.sizes) - 1

\* Decoder.SizeBySymbol: the slice d.sizes itself
DecoderSizeBySymbol(dec) == dec.sizes

----------------------------------------------------------------------------
(* Encoder *)

\* the zero value Encoder{}
ZeroEncoder == [codes |-> <<>>, minSize |-> 0, maxSize |-> 0]

\* mutant: equal sizes are ordered by descending symbol
bySizeLessDescending(a, b) ==
    IF a.size # b.size THEN a.size < b.size ELSE a.symbol > b.symbol

\* bySize.Less on symbolAndSize: by size, then by symbol
bySizeLess(a, b) == IF a.size # b.size THEN a.size < b.size ELSE a.symbol < b.symbol

\* bySize.Sort, one step: the least element left joins the sorted prefix
bySizeNext(st) ==
    LET first == CHOOSE a \in st.rest : \A b \in st.rest \ {a} : bySizeLess(a, b)
    IN  [rest |-> st.rest \ {first}, sorted |-> Append(st.sorted, first)]

\* bySize.Sort: the keys (size, symbol) are pairwise distinct, so the sorted
\* order is unique; list is given as the set of its elements
bySizeSort(list) ==
    Loop(bySizeNext, LAMBDA s : s.rest = {}, [rest |-> list, sorted |-> <<>>], 0, TRUE).sorted

\* secondPass, first loop, one iteration: (symbol, size) of symbol st.symbol
\* is appended if its size is nonzero
collectSize(codes, st) ==
    LET size == codes[st.symbol + 1].Size
    IN  IF size = 0 THEN [st EXCEPT !.symbol = @ + 1]
        ELSE IF size > maxBitsPerCode THEN [st EXCEPT !.out = "error"]
        ELSE [symbol |-> st.symbol + 1, out |-> "ok",
              list |-> st.list \cup {[symbol |-> st.symbol, size |-> size]}]

\* secondPass, first loop: collect (symbol, size) of the nonzero sizes
collectSizes(codes, st) ==
    Loop(LAMBDA s : collectSize(codes, s),
         LAMBDA s : s.out # "ok" \/ s.symbol >= Len(codes), st, 0, TRUE)

\* mutant: the running value is stored as it is, without the reversal
assignCodeNatural(sorted, st) ==
    LET item == sorted[st.k]
        code == IF item.size > st.lastSize
                THEN st.nextCode * Pow2(item.size - st.lastSize) ELSE st.nextCode
        last == IF item.size > st.lastSize THEN item.size ELSE st.lastSize
    IN  IF code \div Pow2(item.size) # 0
        THEN [st EXCEPT !.out = "error"]
        ELSE [k |-> st.k + 1, lastSize |-> last, nextCode |-> code + 1, out |-> "ok",
              codes |-> [st.codes EXCEPT ![item.symbol + 1].Bits = code]]

\* secondPass, second loop, one iteration: the item sorted[st.k] gets its code
assignCode(sorted, st) ==
    LET item == sorted[st.k]
        code == IF item.size > st.lastSize
                THEN st.nextCode * Pow2(item.size - st.lastSize) ELSE st.nextCode
        last == IF item.size > st.lastSize THEN item.size ELSE st.lastSize
    IN  IF code \div Pow2(item.size) # 0
        THEN [st EXCEPT !.out = "error"]
        ELSE [k |-> st.k + 1, lastSize |-> last, nextCode |-> code + 1, out |-> "ok",
              codes |-> [st.codes EXCEPT ![item.symbol + 1].Bits =
                                           reverseBits(item.size, code)]]

\* secondPass, second loop: walk the sorted list; codes is updated in place, so
\* the codes assigned before an error stay assigned
assignCodes(sorted, k, lastSize, nextCode, codes) ==
    Loop(LAMBDA s : assignCode(sorted, s),
         LAMBDA s : s.out # "ok" \/ s.k > Len(sorted),
         [k |-> k, lastSize |-> lastSize, nextCode |-> nextCode, out |-> "ok",
          codes |-> codes], 0, TRUE)

\* secondPass: [out, codes]
secondPass(codes) ==
    LET col == collectSizes(codes, [symbol |-> 0, out |-> "ok", list |-> {}])
        sorted == bySizeSort(col.list)
    IN  IF col.out # "ok" THEN [out |-> "error", codes |-> codes]
        ELSE IF Len(sorted) = 0 THEN [out |-> "panic", codes |-> codes]
        ELSE LET sp == assignCodes(sorted, 1, sorted[1].size, 0, codes)
             IN  [out |-> sp.out, codes |-> sp.codes]

\* Encoder.InitFromSizes, the loop, one iteration: codes[symbol].Size,
\* minSize, maxSize for symbol st.symbol
sizeToCode(sizes, st) ==
    LET size == sizes[st.symbol + 1]
    IN  IF size = 0 THEN [st EXCEPT !.symbol = @ + 1]
        ELSE [symbol |-> st.symbol + 1,
              codes |-> [st.codes EXCEPT ![st.symbol + 1].Size = size],
              hasMinMax |-> TRUE,
              minSize |-> IF ~st.hasMinMax \/ st.minSize > size
                          THEN size ELSE st.minSize,
              maxSize |-> IF ~st.hasMinMax \/ (st.minSize <= size /\ st.maxSize < size)
                          THEN size ELSE st.maxSize]

\* Encoder.InitFromSizes, the loop over the symbols
sizesToCodes(sizes, st) ==
    Loop(LAMBDA s : sizeToCode(sizes, s), LAMBDA s : s.symbol >= Len(sizes), st, 0, TRUE)

\* Encoder.InitFromSizes: [out, e], e the instance afterwards
EncoderInitFromSizes(old, sizes) ==
    LET st == sizesToCodes(sizes,
                [symbol |-> 0, codes |-> [i \in 1 .. Len(sizes) |-> ZeroCode],
                 hasMinMax |-> FALSE, minSize |-> 0, maxSize |-> 0])
        sp == secondPass(st.codes)
    IN  IF sp.out # "ok" THEN [out |-> sp.out, e |-> old]
        ELSE [out |-> "ok",
              e |-> [codes |-> sp.codes, minSize |-> st.minSize, maxSize |-> st.maxSize]]

\* Encoder.Encode
Encode(enc, symbol) == enc.codes[symbol + 1]

EncoderMinSize(enc) == enc.minSize

EncoderMaxSize(enc) == enc.maxSize

\* Encoder.NumSymbols
EncoderNumSymbols(enc) == Len(enc.codes)

\* Encoder.MaxSymbol
EncoderMaxSymbol(enc) == Len(enc.codes) - 1

\* Encoder.SizeBySymbol: a new slice
EncoderSizeBySymbol(enc) == [i \in 1 .. Len(enc.codes) |-> enc.codes[i].Size]

\* Decoder.InitFromEncoder
DecoderInitFromEncoder(old, enc) == DecoderInit(old, EncoderSizeBySymbol(enc))

\* Encoder.InitFromDecoder
EncoderInitFromDecoder(old, dec) == EncoderInitFromSizes(old, DecoderSizeBySymbol(dec))

\* Decoder.Encoder(): a new Encoder; an error of InitFromDecoder is turned into a panic
DecoderEncoder(dec) ==
    LET r == EncoderInitFromDecoder(ZeroEncoder, dec)
    IN  IF r.out = "ok" THEN r ELSE [out |-> "panic", e |-> ZeroEncoder]

\* Encoder.Decoder(): a new Decoder; an error of InitFromEncoder is turned into a panic
EncoderDecoder(enc) ==
    LET r == DecoderInitFromEncoder(ZeroDecoder, enc)
    IN  IF r.out = "ok" THEN r ELSE [out |-> "panic", d |-> ZeroDecoder]

----------------------------------------------------------------------------
(* Encoder.Init: the tree builder *)

\* mutant: the heap is ordered by symbol alone
freqHeapLessBySymbol(a, b) == SymbolLessAsUint32(a.symbol, b.symbol)

\* mutant: equal frequencies are ordered by the symbol as a signed number
freqHeapLessSigned(a, b) ==
    IF a.freq # b.freq THEN U32Less(a.freq, b.freq)
    ELSE a.symbol < b.symbol

\* freqHeap.Less on symbolAndFreq: by freq, then by uint32(symbol)
freqHeapLess(a, b) ==
    IF a.freq # b.freq THEN U32Less(a.freq, b.freq)
    ELSE SymbolLessAsUint32(a.symbol, b.symbol)

\* the node heap.Pop returns: the least one under Less.  Less is a strict
\* total order on nodes with distinct symbols, so the heap, given as the set
\* of its nodes, pops the same node whatever the layout of its array.
heapTop(h) == CHOOSE a \in h : \A b \in h \ {a} : freqHeapLess(a, b)

\* mutant: the sum wraps modulo 2^32
mergeTwoWrapping(st) ==
    LET a == heapTop(st.h)
        b == heapTop(st.h \ {a})
        freqSum == U32Add(a.freq, b.freq)
    IN  [h |-> (st.h \ {a, b})
                 \cup {[symbol |-> st.nextSyntheticSymbol, freq |-> freqSum]},
         syntheticSymbols |-> Append(st.syntheticSymbols,
                                     [left |-> a.symbol, right |-> b.symbol]),
         nextSyntheticSymbol |-> st.nextSyntheticSymbol + 1]

\* firstPass, second loop, one iteration: pop two nodes, push their synthetic parent
mergeTwo(st) ==
    LET a == heapTop(st.h)
        b == heapTop(st.h \ {a})
        sum == U32Add(a.freq, b.freq)
        freqSum == IF U32Less(sum, a.freq) THEN MaxUint32 ELSE sum
    IN  [h |-> (st.h \ {a, b})
                 \cup {[symbol |-> st.nextSyntheticSymbol, freq |-> freqSum]},
         syntheticSymbols |-> Append(st.syntheticSymbols,
                                     [left |-> a.symbol, right |-> b.symbol]),
         nextSyntheticSymbol |-> st.nextSyntheticSymbol + 1]

\* firstPass, second loop: until one node is left
mergeNodes(h, syntheticSymbols, nextSyntheticSymbol) ==
    Loop(mergeTwo, LAMBDA s : Cardinality(s.h) <= 1,
         [h |-> h, syntheticSymbols |-> syntheticSymbols,
          nextSyntheticSymbol |-> nextSyntheticSymbol], 0, TRUE)

\* firstPass, third loop, one iteration of the tree-walking loop over the
\* explicit stack.  st holds stack, codes, hasMinMax, minSize, maxSize.
walkStep(syntheticSymbols, st) ==
    LET stackLen == Len(st.stack)
        top == st.stack[stackLen]
        stack1 == [st.stack EXCEPT ![stackLen].x = @ + 1]
        child == IF top.x = 0
                 THEN syntheticSymbols[(top.s - MinInt32) + 1].left
                 ELSE syntheticSymbols[(top.s - MinInt32) + 1].right
        size == stackLen % 256
    IN  IF top.x >= 2 THEN [st EXCEPT !.stack = SubSeq(st.stack, 1, stackLen - 1)]
        ELSE IF child < 0
             THEN [st EXCEPT !.stack = Append(stack1, [s |-> child, x |-> 0])]
        ELSE [stack |-> stack1,
              codes |-> [st.codes EXCEPT ![child + 1].Size = size],
              hasMinMax |-> TRUE,
              minSize |-> IF ~st.hasMinMax \/ st.minSize > size
                          THEN size ELSE st.minSize,
              maxSize |-> IF ~st.hasMinMax \/ (st.minSize <= size /\ st.maxSize < size)
                          THEN size ELSE st.maxSize]

\* firstPass, third loop: until the stack is empty
walkTree(syntheticSymbols, st) ==
    Loop(LAMBDA s : walkStep(syntheticSymbols, s), LAMBDA s : Len(s.stack) = 0, st, 0, TRUE)

\* firstPass: [codes, minSize, maxSize]; nodes is the set of live (symbol, freq)
firstPass(codes, nodes) ==
    LET tree == mergeNodes(nodes, <<>>, MinInt32)
        root == heapTop(tree.h)
        st == walkTree(tree.syntheticSymbols,
                       [stack |-> <<[s |-> root.symbol, x |-> 0]>>, codes |-> codes,
                        hasMinMax |-> FALSE, minSize |-> 0, maxSize |-> 0])
    IN  [codes |-> st.codes, minSize |-> st.minSize, maxSize |-> st.maxSize]

\* mutant: the symbols of frequency 0 become nodes of the tree too
liveNodeKeepZero(frequencies, st) ==
    [symbol |-> st.symbol + 1,
     nodes |-> Append(st.nodes, [symbol |-> st.symbol,
                                 freq |-> frequencies[st.symbol + 1]])]

\* mutant: the live symbols are collected from the last symbol down
liveNodeDescending(frequencies, st) ==
    IF frequencies[st.symbol + 1] = U32(0) THEN [st EXCEPT !.symbol = @ + 1]
    ELSE [symbol |-> st.symbol + 1,
          nodes |-> <<[symbol |-> st.symbol, freq |-> frequencies[st.symbol + 1]]>>
                    \o st.nodes]

\* Encoder.Init, first loop, one iteration: symbol st.symbol is appended if live
liveNode(frequencies, st) ==
    IF frequencies[st.symbol + 1] = U32(0) THEN [st EXCEPT !.symbol = @ + 1]
    ELSE [symbol |-> st.symbol + 1,
          nodes |-> Append(st.nodes, [symbol |-> st.symbol,
                                      freq |-> frequencies[st.symbol + 1]])]

\* Encoder.Init, first loop: the live symbols in symbol order
liveNodes(frequencies, symbol) ==
    Loop(LAMBDA s : liveNode(frequencies, s), LAMBDA s : s.symbol >= Len(frequencies),
         [symbol |-> symbol, nodes |-> <<>>], 0, TRUE).nodes

\* Encoder.Init: the instance afterwards (Init returns nothing; the error of
\* secondPass is dropped and whatever secondPass wrote to codes is kept)
EncoderInit(numSymbols, frequencies) ==
    LET codes == [i \in 1 .. numSymbols |-> ZeroCode]
        nodes == liveNodes(frequencies, 0)
        nodeLen == Len(nodes)
    IN  IF nodeLen <= 2
        THEN [codes |-> [i \in 1 .. numSymbols |->
                           IF \E index \in 1 .. nodeLen : nodes[index].symbol = i - 1
                           THEN MakeCode(1, (CHOOSE index \in 1 .. nodeLen :
                                               nodes[index].symbol = i - 1) - 1)
                           ELSE ZeroCode],
              minSize |-> 1, maxSize |-> 1]
        ELSE LET fp == firstPass(codes, {nodes[i] : i \in 1 .. nodeLen})
             IN  [codes |-> secondPass(fp.codes).codes,
                  minSize |-> fp.minSize, maxSize |-> fp.maxSize]

----------------------------------------------------------------------------
(* The arguments a caller passes *)

SeqsUpTo(S, n) == UNION {[1 .. k -> S] : k \in 0 .. n}

\* lengths around the limit; 255 is the largest byte
EdgeSizes == {1, maxBitsPerCode - 1, maxBitsPerCode, maxBitsPerCode + 1, 255}

\* <<1, 2, ..., k, k>>
ChainUp(k) == [i \in 1 .. (k + 1) |-> IF i <= k THEN i ELSE k]

\* <<k, k, k-1, ..., 1>>
ChainDown(k) == [i \in 1 .. (k + 1) |-> IF i = 1 THEN k ELSE k + 2 - i]

\* the lengths of TestDecoder_Decode
TestSizes == <<4, 4, 3, 3, 3, 1>>

SizeInputs ==
    SeqsUpTo(0 .. MaxSmallSize, MaxSyms)
    \cup SeqsUpTo(EdgeSizes, MaxEdgeSyms)
    \cup {ChainUp(k) : k \in 1 .. MaxChain}
    \cup {ChainDown(k) : k \in 1 .. MaxChain}
    \cup {TestSizes}

RECURSIVE Fib(_)
Fib(n) == IF n <= 2 THEN 1 ELSE Fib(n - 1) + Fib(n - 2)

\* the frequencies of TestEncoder_Encode
TestFrequencies == <<5, 9, 12, 13, 16, 45>>

FreqInputs ==
    {[numSymbols |-> n, frequencies |-> f] :
        n \in 1 .. MaxFreqSyms, f \in SeqsUpTo(0 .. MaxFreq, MaxFreqSyms)}
    \cup {[numSymbols |-> n, frequencies |-> [i \in 1 .. n |-> Fib(i)]] : n \in 3 .. MaxFib}
    \cup {[numSymbols |-> Len(TestFrequencies), frequencies |-> TestFrequencies]}

\* frequencies at the top of the uint32 range, where a sum of two does not fit
BigFrequencies ==
    {U32(1), U32(Pow2(30)), [hi |-> Half \div 2, lo |-> 0],
     [hi |-> Half - 1, lo |-> Half - 2], MaxUint32}

BigFreqInputs ==
    {[kind |-> "freqs", sizes |-> <<>>, numSymbols |-> Len(f), frequencies |-> f] :
        f \in UNION {[1 .. n -> BigFrequencies] : n \in 3 .. MaxBigSyms}}

Inputs ==
    {[kind |-> "sizes", sizes |-> s, numSymbols |-> 0, frequencies |-> <<>>] :
        s \in SizeInputs}
    \cup {[kind |-> "freqs", sizes |-> <<>>, numSymbols |-> f.numSymbols,
           frequencies |-> [i \in 1 .. Len(f.frequencies) |-> U32(f.frequencies[i])]] :
          f \in {g \in FreqInputs : Len(g.frequencies) <= g.numSymbols}}

\* the codes the caller hands to Decode: the well-formed codes of at most
\* MaxProbeSize bits
ProbeCodes ==
    {MakeCode(n, b) : n \in 0 .. MaxProbeSize, b \in 0 .. (Pow2(MaxProbeSize) - 1)}

----------------------------------------------------------------------------
(* The state machine: one caller, one Decoder, one Encoder *)

NoRet == [op |-> "none", symbol |-> InvalidSymbol, hc |-> ZeroCode,
          minSize |-> 0, maxSize |-> 0]

\* a run-time panic ends the program
Running == dOut # "panic" /\ eOut # "panic"

\* the caller holds no unread result: it makes its next call
Idle == Running /\ ret.op = "none"

\* the caller holds no slice
NoSlice == [from |-> "none", shared |-> FALSE, written |-> FALSE, val |-> <<>>]

\* the reader has not started
NoReader == [on |-> FALSE, hc |-> ZeroCode, symbol |-> InvalidSymbol,
             minSize |-> 0, maxSize |-> 0, seen |-> {}]

\* no table is being filled again
NoRefill == [on |-> FALSE, table |-> <<>>, walked |-> <<>>, left |-> {}]

\* no node popped yet
NoNode == [symbol |-> InvalidSymbol, freq |-> U32(0)]

\* firstPass has not started
NoTree == [on |-> FALSE, h |-> {}, syntheticSymbols |-> <<>>,
           nextSyntheticSymbol |-> MinInt32, a |-> NoNode, b |-> NoNode]

\* no histogram: Decoder.Init is run on input.sizes from its first loop on
NoHistogram == [countArray |-> [i \in ArrayIndex |-> 0], minSize |-> 0, maxSize |-> 0,
                out |-> "none"]

\* *d = Decoder{...}: d.sizes is a new array, a slice of the old one is on its own
Detached(slice) == [slice EXCEPT !.shared = FALSE]

Init ==
    /\ input \in Inputs
    /\ d = ZeroDecoder /\ dOp = "none" /\ dOut = "none" /\ dFrom = ZeroEncoder
    /\ e = ZeroEncoder /\ eOp = "none" /\ eOut = "none" /\ eFrom = ZeroDecoder
    /\ ret = NoRet
    /\ held = NoSlice
    /\ reader = NoReader
    /\ refill = NoRefill
    /\ pass = NoTree
    /\ hist = NoHistogram

\* err := d.Init(sizes)
CallDecoderInit ==
    /\ Idle /\ input.kind = "sizes"
    /\ LET r == DecoderInit(d, input.sizes)
       IN  /\ d' = r.d /\ dOut' = r.out
           /\ held' = (IF r.out = "ok" THEN Detached(held) ELSE held)
    /\ dOp' = "Init" /\ dFrom' = ZeroEncoder /\ ret' = NoRet
    /\ UNCHANGED <<input, e, eOp, eOut, eFrom, reader, refill, pass, hist>>

\* err := e.InitFromSizes(sizes)
CallEncoderInitFromSizes ==
    /\ Idle /\ input.kind = "sizes"
    /\ LET r == EncoderInitFromSizes(e, input.sizes)
       IN  e' = r.e /\ eOut' = r.out
    /\ eOp' = "InitFromSizes" /\ eFrom' = ZeroDecoder /\ ret' = NoRet
    /\ UNCHANGED <<input, d, dOp, dOut, dFrom, held, reader, refill, pass, hist>>

\* e.Init(numSymbols, frequencies)
CallEncoderInit ==
    /\ Idle /\ input.kind = "freqs"
    /\ e' = EncoderInit(input.numSymbols, input.frequencies)
    /\ eOut' = "ok" /\ eOp' = "Init" /\ eFrom' = ZeroDecoder /\ ret' = NoRet
    /\ UNCHANGED <<input, d, dOp, dOut, dFrom, held, reader, refill, pass, hist>>

\* e = *d.Encoder(); on a panic nothing is assigned
CallDecoderEncoder ==
    /\ Idle
    /\ LET r == DecoderEncoder(d)
       IN  e' = (IF r.out = "ok" THEN r.e ELSE e) /\ eOut' = r.out
    /\ eOp' = "Decoder.Encoder" /\ eFrom' = d /\ ret' = NoRet
    /\ UNCHANGED <<input, d, dOp, dOut, dFrom, held, reader, refill, pass, hist>>

\* d = *e.Decoder(); on a panic nothing is assigned
CallEncoderDecoder ==
    /\ Idle
    /\ LET r == EncoderDecoder(e)
       IN  /\ d' = (IF r.out = "ok" THEN r.d ELSE d) /\ dOut' = r.out
           /\ held' = (IF r.out = "ok" THEN Detached(held) ELSE held)
    /\ dOp' = "Encoder.Decoder" /\ dFrom' = e /\ ret' = NoRet
    /\ UNCHANGED <<input, e, eOp, eOut, eFrom, reader, refill, pass, hist>>

\* symbol, minSize, maxSize := d.Decode(hc)
CallDecode ==
    /\ Idle
    /\ \E hc \in ProbeCodes :
          LET r == Decode(d, hc)
          IN  ret' = [op |-> "Decode", symbol |-> r[1], hc |-> hc,
                      minSize |-> r[2], maxSize |-> r[3]]
    /\ UNCHANGED <<input, d, dOp, dOut, dFrom, e, eOp, eOut, eFrom, held, reader, refill, pass, hist>>

\* hc := e.Encode(symbol), for a symbol of the alphabet
CallEncode ==
    /\ Idle
    /\ \E symbol \in 0 .. (Len(e.codes) - 1) :
          ret' = [op |-> "Encode", symbol |-> symbol, hc |-> Encode(e, symbol),
                  minSize |-> 0, maxSize |-> 0]
    /\ UNCHANGED <<input, d, dOp, dOut, dFrom, e, eOp, eOut, eFrom, held, reader, refill, pass, hist>>

\* the caller consumes the result of its read call
TakeResult ==
    /\ Running /\ ret.op # "none"
    /\ ret' = NoRet
    /\ UNCHANGED <<input, d, dOp, dOut, dFrom, e, eOp, eOut, eFrom, held, reader, refill, pass, hist>>

Next ==
    \/ CallDecoderInit
    \/ CallEncoderInitFromSizes
    \/ CallEncoderInit
    \/ CallDecoderEncoder
    \/ CallEncoderDecoder
    \/ CallDecode
    \/ CallEncode
    \/ TakeResult

Spec == Init /\ [][Next]_vars

----------------------------------------------------------------------------
(* A caller that reuses its instances: it calls Init again, with another
   argument, on an instance that is already initialized *)

\* the lengths this caller uses: <<1>> and <<1, 1>> are accepted, <<1, 1, 1>>
\* is rejected by both constructors
CallerSizes == {0, 1}

CallerInputs ==
    {x \in Inputs :
        /\ x.kind = "sizes"
        /\ Len(x.sizes) <= MaxCallerSyms
        /\ \A i \in 1 .. Len(x.sizes) : x.sizes[i] \in CallerSizes}

InitCaller ==
    /\ input \in CallerInputs
    /\ d = ZeroDecoder /\ dOp = "none" /\ dOut = "none" /\ dFrom = ZeroEncoder
    /\ e = ZeroEncoder /\ eOp = "none" /\ eOut = "none" /\ eFrom = ZeroDecoder
    /\ ret = NoRet
    /\ held = NoSlice
    /\ reader = NoReader
    /\ refill = NoRefill
    /\ pass = NoTree
    /\ hist = NoHistogram

\* the caller prepares the argument of its next Init call
NewArgument ==
    /\ Idle
    /\ input' \in CallerInputs
    /\ UNCHANGED <<d, dOp, dOut, dFrom, e, eOp, eOut, eFrom, ret, held, reader, refill, pass, hist>>

NextReinit ==
    \/ CallDecoderInit
    \/ CallEncoderInitFromSizes
    \/ NewArgument

SpecReinit == InitCaller /\ [][NextReinit]_vars

----------------------------------------------------------------------------
(* A caller that writes to a slice it shares with the package: the slice a
   SizeBySymbol call returned, or the slice it passed to Init.  It takes one
   slice and overwrites one element of it. *)

\* sizes := d.SizeBySymbol(): the returned slice is d.sizes, on d's array
CallDecoderSizeBySymbol ==
    /\ Idle /\ held.from = "none"
    /\ held' = [from |-> "Decoder.SizeBySymbol", shared |-> TRUE, written |-> FALSE,
                val |-> DecoderSizeBySymbol(d)]
    /\ UNCHANGED <<input, d, dOp, dOut, dFrom, e, eOp, eOut, eFrom, ret, reader, refill, pass, hist>>

\* sizes := e.SizeBySymbol(): the returned slice is made by the call
CallEncoderSizeBySymbol ==
    /\ Idle /\ held.from = "none"
    /\ held' = [from |-> "Encoder.SizeBySymbol", shared |-> FALSE, written |-> FALSE,
                val |-> EncoderSizeBySymbol(e)]
    /\ UNCHANGED <<input, d, dOp, dOut, dFrom, e, eOp, eOut, eFrom, ret, reader, refill, pass, hist>>

\* sizes[i] = v on the slice a SizeBySymbol call returned: a write to the
\* array, seen through every slice on it
OverwriteHeld ==
    /\ Idle /\ held.from \in {"Decoder.SizeBySymbol", "Encoder.SizeBySymbol"}
    /\ ~held.written
    /\ \E i \in 1 .. Len(held.val), v \in CallerSizes :
          /\ held' = [held EXCEPT !.val[i] = v, !.written = TRUE]
          /\ d' = (IF held.shared THEN [d EXCEPT !.sizes[i] = v] ELSE d)
    /\ UNCHANGED <<input, dOp, dOut, dFrom, e, eOp, eOut, eFrom, ret, reader, refill, pass, hist>>

\* sizes[i] = v on the slice that was passed to Decoder.Init or
\* Encoder.InitFromSizes; both copied what they keep of it
OverwriteArgument ==
    /\ Idle /\ held.from = "none"
    /\ dOp = "Init" \/ eOp = "InitFromSizes"
    /\ \E i \in 1 .. Len(input.sizes), v \in CallerSizes :
          /\ input' = [input EXCEPT !.sizes[i] = v]
          /\ held' = [from |-> "argument", shared |-> FALSE, written |-> TRUE,
                      val |-> input'.sizes]
    /\ UNCHANGED <<d, dOp, dOut, dFrom, e, eOp, eOut, eFrom, ret, reader, refill, pass, hist>>

NextAlias ==
    \/ CallDecoderInit
    \/ CallEncoderInitFromSizes
    \/ CallDecoderEncoder
    \/ CallEncoderDecoder
    \/ CallDecode
    \/ CallEncode
    \/ TakeResult
    \/ CallDecoderSizeBySymbol
    \/ CallEncoderSizeBySymbol
    \/ OverwriteHeld
    \/ OverwriteArgument

SpecAlias == InitCaller /\ [][NextAlias]_vars

----------------------------------------------------------------------------
(* A streaming reader: it starts from the empty code, asks Decode, and while
   the answer is "insufficient bits" it appends the next bit of its input at
   bit position Size and asks again.  It stops at an exact match and at
   "unreasonable input". *)

\* what Decode returned last is "insufficient bits"
Partial(r) == r.symbol = InvalidSymbol /\ ~(r.minSize = 0 /\ r.maxSize = 0)

\* hc with one more bit: hc.Bits |= bit << hc.Size; hc.Size++
AppendBit(hc, bit) == MakeCode(hc.Size + 1, hc.Bits + bit * Pow2(hc.Size))

\* hc := Code{}; symbol, minSize, maxSize := d.Decode(hc)
StartStream ==
    /\ Idle /\ dOut = "ok" /\ ~reader.on
    /\ LET r == Decode(d, ZeroCode)
       IN  reader' = [on |-> TRUE, hc |-> ZeroCode, symbol |-> r[1],
                      minSize |-> r[2], maxSize |-> r[3], seen |-> {}]
    /\ UNCHANGED <<input, d, dOp, dOut, dFrom, e, eOp, eOut, eFrom, ret, held, refill, pass, hist>>

\* the reader appends the next bit, whatever it is, and asks again
ReadBit ==
    /\ Running /\ reader.on /\ Partial(reader)
    /\ \E bit \in {0, 1} :
          LET hc == AppendBit(reader.hc, bit)
              r == Decode(d, hc)
          IN  reader' = [on |-> TRUE, hc |-> hc, symbol |-> r[1],
                         minSize |-> r[2], maxSize |-> r[3],
                         seen |-> reader.seen \cup {<<reader.minSize, reader.maxSize>>}]
    /\ UNCHANGED <<input, d, dOp, dOut, dFrom, e, eOp, eOut, eFrom, ret, held, refill, pass, hist>>

NextStream ==
    \/ CallDecoderInit
    \/ StartStream
    \/ ReadBit

\* the argument is a sequence of lengths
InitSizes == Init /\ input.kind = "sizes"

SpecStream == InitSizes /\ [][NextStream]_vars

----------------------------------------------------------------------------
(* The third loop of Decoder.Init run again on an empty table, the symbols
   taken in any order, once with fillTable and once with the walk that never
   stops early *)

\* the codes that Decoder.Init handed to fillTable, with their symbols
StoredCodes(table) == {hc \in DOMAIN table : table[hc].symbol # InvalidSymbol}

\* table: make(map[Code]decoderData, numTableSlots)
StartRefill ==
    /\ Idle /\ dOut = "ok" /\ ~refill.on
    /\ Cardinality(StoredCodes(d.table)) <= MaxRefillSyms
    /\ refill' = [on |-> TRUE, table |-> <<>>, walked |-> <<>>,
                  left |-> StoredCodes(d.table)]
    /\ UNCHANGED <<input, d, dOp, dOut, dFrom, e, eOp, eOut, eFrom, ret, held, reader, pass, hist>>

\* fillTable(d.table, symbol, hc), for any symbol that is still left
InsertCode ==
    /\ Running /\ refill.on
    /\ \E hc \in refill.left :
          refill' = [on |-> TRUE,
                     table |-> fillTable(refill.table, d.table[hc].symbol, hc),
                     walked |-> fillTableWalk(refill.walked, d.table[hc].symbol, hc),
                     left |-> refill.left \ {hc}]
    /\ UNCHANGED <<input, d, dOp, dOut, dFrom, e, eOp, eOut, eFrom, ret, held, reader, pass, hist>>

NextRefill ==
    \/ CallDecoderInit
    \/ StartRefill
    \/ InsertCode

SpecRefill == InitSizes /\ [][NextRefill]_vars

----------------------------------------------------------------------------
(* firstPass, one iteration of its merging loop at a time *)

TreeInputs == {i \in Inputs : i.kind = "freqs"} \cup BigFreqInputs

InitTree ==
    /\ input \in TreeInputs
    /\ d = ZeroDecoder /\ dOp = "none" /\ dOut = "none" /\ dFrom = ZeroEncoder
    /\ e = ZeroEncoder /\ eOp = "none" /\ eOut = "none" /\ eFrom = ZeroDecoder
    /\ ret = NoRet
    /\ held = NoSlice
    /\ reader = NoReader
    /\ refill = NoRefill
    /\ pass = NoTree
    /\ hist = NoHistogram

\* h := freqHeap{nodes}; h.Init(); nextSyntheticSymbol := Symbol(math.MinInt32),
\* when Encoder.Init has found more than two live symbols
StartTree ==
    /\ Idle /\ input.kind = "freqs" /\ ~pass.on
    /\ LET nodes == liveNodes(input.frequencies, 0)
       IN  /\ Len(nodes) > 2
           /\ pass' = [on |-> TRUE, h |-> {nodes[i] : i \in 1 .. Len(nodes)},
                       syntheticSymbols |-> <<>>, nextSyntheticSymbol |-> MinInt32,
                       a |-> NoNode, b |-> NoNode]
    /\ UNCHANGED <<input, d, dOp, dOut, dFrom, e, eOp, eOut, eFrom, ret, held, reader, refill, hist>>

\* one iteration of "for h.Len() > 1"
MergeStep ==
    /\ Running /\ pass.on /\ Cardinality(pass.h) > 1
    /\ LET a == heapTop(pass.h)
           b == heapTop(pass.h \ {a})
           st == mergeTwo([h |-> pass.h, syntheticSymbols |-> pass.syntheticSymbols,
                           nextSyntheticSymbol |-> pass.nextSyntheticSymbol])
       IN  pass' = [on |-> TRUE, h |-> st.h, syntheticSymbols |-> st.syntheticSymbols,
                    nextSyntheticSymbol |-> st.nextSyntheticSymbol, a |-> a, b |-> b]
    /\ UNCHANGED <<input, d, dOp, dOut, dFrom, e, eOp, eOut, eFrom, ret, held, reader, refill, hist>>

NextTree ==
    \/ CallEncoderInit
    \/ StartTree
    \/ MergeStep

SpecTree == InitTree /\ [][NextTree]_vars

----------------------------------------------------------------------------
(* The notions the properties are stated in, defined without the code *)

RECURSIVE SumSeq(_)
SumSeq(q) == IF Len(q) = 0 THEN 0 ELSE Head(q) + SumSeq(Tail(q))

LiveSymbols(S) == {s \in 0 .. (Len(S) - 1) : S[s + 1] > 0}

LengthsOf(S) == {S[s + 1] : s \in LiveSymbols(S)}

MaxLength(S) == CHOOSE m \in LengthsOf(S) : \A l \in LengthsOf(S) : l <= m

MinLength(S) == CHOOSE m \in LengthsOf(S) : \A l \in LengthsOf(S) : m <= l

WithinLimit(S) == \A i \in 1 .. Len(S) : S[i] <= maxBitsPerCode

\* the Kraft sum of S times 2^M, for M at least every length of S
KraftTimes(S, M) ==
    SumSeq([i \in 1 .. Len(S) |-> IF S[i] > 0 THEN Pow2(M - S[i]) ELSE 0])

Complete(S) ==
    LiveSymbols(S) # {} /\ KraftTimes(S, MaxLength(S)) = Pow2(MaxLength(S))

Oversubscribed(S) ==
    LiveSymbols(S) # {} /\ KraftTimes(S, MaxLength(S)) > Pow2(MaxLength(S))

\* the value of a code read most significant bit first: its Bits reversed over Size bits
NaturalValue(hc) ==
    SumSeq([i \in 1 .. hc.Size |-> BitAt(hc.Bits, i - 1) * Pow2(hc.Size - i)])

\* the first canonical code of length L: the counts of the shorter lengths only
FirstCode(S, L) ==
    SumSeq([i \in 1 .. Len(S) |-> IF S[i] > 0 /\ S[i] < L THEN Pow2(L - S[i]) ELSE 0])

\* the canonical code of live symbol s in transmission order
AssignedCode(S, s) ==
    LET L == S[s + 1]
        rank == Cardinality({t \in LiveSymbols(S) : S[t + 1] = L /\ t < s})
        value == FirstCode(S, L) + rank
    IN  MakeCode(L, SumSeq([i \in 1 .. L |-> BitAt(value, i - 1) * Pow2(L - i)]))

AssignedCodes(S) == {AssignedCode(S, s) : s \in LiveSymbols(S)}

\* p is the first p.Size bits of c
IsPrefix(p, c) == p.Size <= c.Size /\ p.Bits = c.Bits % Pow2(p.Size)

IsProperPrefix(p, c) == p.Size < c.Size /\ IsPrefix(p, c)

\* the first k bits of c
PrefixOf(c, k) == MakeCode(k, c.Bits % Pow2(k))

\* d was built by Init from input.sizes, e by InitFromSizes from input.sizes
DecoderBuilt == dOp = "Init" /\ dOut = "ok"

EncoderBuilt == eOp = "InitFromSizes" /\ eOut = "ok"

----------------------------------------------------------------------------
(* Decoder.Init on arguments too long to be written out: they are given by
   the histogram that the first loop makes of them, countArray[L] being the
   number of symbols of length L, with minSize and maxSize the shortest and the
   longest length present *)

\* the numbers of symbols of one length
HistCounts == {0, 1, 2, 3, 4, Pow2(29), Pow2(30), Pow2(30) + 1}

\* the number of symbols, in units of 2^16 and a rest
SymbolCount(c) ==
    [hi |-> SumSeq([i \in 1 .. maxBitsPerCode |->
                      IF (i - 1) \in DOMAIN c THEN c[i - 1] \div Half ELSE 0]),
     lo |-> SumSeq([i \in 1 .. maxBitsPerCode |->
                      IF (i - 1) \in DOMAIN c THEN c[i - 1] % Half ELSE 0])]

\* len(sizes) fits Symbol, an int32
FitsSymbol(c) == SymbolCount(c).hi + (SymbolCount(c).lo \div Half) < Half \div 2

\* what the first loop leaves for an argument with c[L] symbols of length L
HistogramOf(c) ==
    LET present == {L \in DOMAIN c : c[L] > 0}
    IN  [countArray |-> [i \in ArrayIndex |-> IF i \in DOMAIN c THEN c[i] ELSE 0],
         minSize |-> CHOOSE L \in present : \A K \in present : L <= K,
         maxSize |-> CHOOSE L \in present : \A K \in present : K <= L,
         out |-> "none"]

\* 2^19 symbols of length 1 before the lengths 1, 2, ..., 13, 14, 14
LongChain == [L \in 1 .. 14 |-> IF L = 1 THEN Pow2(19) + 1 ELSE IF L = 14 THEN 2 ELSE 1]

Histograms ==
    {HistogramOf(c) :
        c \in {f \in [1 .. MaxHistSize -> HistCounts] :
                  (\E L \in 1 .. MaxHistSize : f[L] > 0) /\ FitsSymbol(f)}
              \cup {LongChain}}

InitHistogram ==
    /\ hist \in Histograms
    /\ input = [kind |-> "sizes", sizes |-> <<>>, numSymbols |-> 0, frequencies |-> <<>>]
    /\ d = ZeroDecoder /\ dOp = "none" /\ dOut = "none" /\ dFrom = ZeroEncoder
    /\ e = ZeroEncoder /\ eOp = "none" /\ eOut = "none" /\ eFrom = ZeroDecoder
    /\ ret = NoRet
    /\ held = NoSlice
    /\ reader = NoReader
    /\ refill = NoRefill
    /\ pass = NoTree

\* err := d.Init(sizes), from "var nextCodeArray" on
CallCheckCodes ==
    /\ hist.out = "none" /\ hist.maxSize > 0
    /\ hist' = [hist EXCEPT !.out = checkCodes(hist.countArray, hist.minSize,
                                               hist.maxSize).out]
    /\ UNCHANGED <<input, d, dOp, dOut, dFrom, e, eOp, eOut, eFrom, ret, held, reader, refill, pass>>

NextHistogram == CallCheckCodes

SpecHistogram == InitHistogram /\ [][NextHistogram]_vars

----------------------------------------------------------------------------
(* Properties *)

\* C1: decode soundness.  When both Decoder.Init and Encoder.InitFromSizes
\* accept the length sequence S, Decode of Encode(s) is (s, S[s], S[s]) for
\* every live symbol s.
DecodeSoundness ==
    (DecoderBuilt /\ EncoderBuilt) =>
        \A s \in LiveSymbols(input.sizes) :
            Decode(d, Encode(e, s)) = <<s, input.sizes[s + 1], input.sizes[s + 1]>>

DecodeSoundnessWitness ==
    DecoderBuilt /\ EncoderBuilt /\ input.sizes = TestSizes

\* C2: length round-trip.  A Decoder built from S converts to an Encoder
\* without panic and that Encoder's SizeBySymbol is S; an Encoder built from S
\* converts to a Decoder whose SizeBySymbol is S.
LengthRoundTrip ==
    /\ (DecoderBuilt /\ eOp = "Decoder.Encoder" /\ eFrom = d) =>
           (eOut = "ok" /\ EncoderSizeBySymbol(e) = input.sizes)
    /\ (EncoderBuilt /\ dOp = "Encoder.Decoder" /\ dFrom = e) =>
           (dOut = "ok" /\ DecoderSizeBySymbol(d) = input.sizes)

\* C3: Encoder.InitFromSizes accepts a length sequence exactly when
\* Decoder.Init accepts it, and the mirror Decoder of a constructed Encoder is
\* never rejected.
ValidateIdentically ==
    /\ (dOp = "Init" /\ eOp = "InitFromSizes") => ((dOut = "ok") <=> (eOut = "ok"))
    /\ (EncoderBuilt /\ dOp = "Encoder.Decoder" /\ dFrom = e) => dOut = "ok"

\* C4: partial-prefix bounds are exact.  After Decoder.Init succeeds, Decode of
\* every proper prefix p of an assigned code is (InvalidSymbol, lo, hi) with lo
\* and hi the least and greatest length of the assigned codes extending p, and
\* p.Size < lo <= hi <= MaxSize(); Decode of the empty code is
\* (InvalidSymbol, MinSize(), MaxSize()).
PartialPrefixBounds ==
    DecoderBuilt =>
        LET A == AssignedCodes(input.sizes)
        IN  /\ \A c \in A : \A k \in 0 .. (c.Size - 1) :
                  LET p == PrefixOf(c, k)
                      ext == {a.Size : a \in {x \in A : IsProperPrefix(p, x)}}
                      lo == CHOOSE m \in ext : \A l \in ext : m <= l
                      hi == CHOOSE m \in ext : \A l \in ext : l <= m
                  IN  /\ Decode(d, p) = <<InvalidSymbol, lo, hi>>
                      /\ k < lo /\ lo <= hi /\ hi <= DecoderMaxSize(d)
            /\ Decode(d, ZeroCode) = <<InvalidSymbol, DecoderMinSize(d), DecoderMaxSize(d)>>

PartialPrefixBoundsWitness ==
    DecoderBuilt /\ input.sizes = TestSizes
    /\ Decode(d, MakeCode(1, 1)) = <<InvalidSymbol, 3, 4>>

\* the codes Decode is examined on: the keys of the table, the assigned codes
\* and their prefixes, the short codes, and around each of these its sibling,
\* its two one-bit extensions and the same code with a stray bit above Size
Around(c) ==
    {MakeCode(c.Size + 1, c.Bits), MakeCode(c.Size + 1, c.Bits + Pow2(c.Size)),
     MakeCode(c.Size, c.Bits + Pow2(c.Size))}
    \cup (IF c.Size = 0 THEN {} ELSE {MakeCode(c.Size, XorBit(c.Bits, c.Size - 1))})

ExaminedCodes(S) ==
    LET A == AssignedCodes(S)
        base == (DOMAIN d.table) \cup A \cup ProbeCodes
                \cup {PrefixOf(c, k) : c \in A, k \in 0 .. maxBitsPerCode}
    IN  base \cup UNION {Around(c) : c \in base}

\* C5: decode failure.  For a constructed Decoder, Decode(hc) is
\* (InvalidSymbol, 0, 0) exactly when hc is neither an assigned code nor a
\* proper prefix of one, and every result is exact (s >= 0, n, n), partial
\* (InvalidSymbol, lo, hi) with lo >= 1, or no-match (InvalidSymbol, 0, 0).
DecodeFailure ==
    DecoderBuilt =>
        LET A == AssignedCodes(input.sizes)
        IN  \A hc \in ExaminedCodes(input.sizes) :
                LET r == Decode(d, hc)
                IN  /\ (r = <<InvalidSymbol, 0, 0>>) <=>
                           (hc \notin A /\ ~\E a \in A : IsProperPrefix(hc, a))
                    /\ \/ r[1] >= 0 /\ r[2] = r[3] /\ r[2] >= 1
                       \/ r[1] = InvalidSymbol /\ r[2] >= 1 /\ r[2] <= r[3]
                       \/ r = <<InvalidSymbol, 0, 0>>

DecodeFailureWitness ==
    DecoderBuilt /\ input.sizes = TestSizes
    /\ Decode(d, MakeCode(2, 0)) = <<InvalidSymbol, 0, 0>>
    /\ Decode(d, MakeCode(2, 1)) = <<InvalidSymbol, 3, 3>>

\* C6: prefix-freedom.  For an Encoder built by Init or by InitFromSizes, no
\* code of a live symbol is a prefix, in transmission order, of the code of
\* another live symbol.
PrefixFreedom ==
    (eOut = "ok" /\ eOp \in {"Init", "InitFromSizes"}) =>
        \A a, b \in 0 .. (Len(e.codes) - 1) :
            (a # b /\ Encode(e, a).Size # 0 /\ Encode(e, b).Size # 0)
                => ~IsPrefix(Encode(e, a), Encode(e, b))

\* C7: canonical ordering.  For an Encoder built by InitFromSizes, the natural
\* values of the codes of one length increase with the symbol, and the code of
\* the smallest symbol of length L is the sum over the shorter lengths l of
\* count[l] * 2^(L-l).
CanonicalOrdering ==
    EncoderBuilt =>
        LET S == input.sizes
        IN  /\ \A a, b \in LiveSymbols(S) :
                  (a < b /\ S[a + 1] = S[b + 1])
                      => NaturalValue(Encode(e, a)) < NaturalValue(Encode(e, b))
            /\ \A s \in LiveSymbols(S) :
                  (\A t \in LiveSymbols(S) : S[t + 1] = S[s + 1] => s <= t)
                      => NaturalValue(Encode(e, s)) = FirstCode(S, S[s + 1])

CanonicalOrderingWitness ==
    EncoderBuilt /\ input.sizes = TestSizes
    /\ NaturalValue(Encode(e, 2)) = 4 /\ NaturalValue(Encode(e, 4)) = 6

\* C8: oversubscription is rejected.  A length sequence within the limit whose
\* Kraft sum exceeds 1 makes Decoder.Init and Encoder.InitFromSizes return an error.
OversubscriptionRejected ==
    (input.kind = "sizes" /\ WithinLimit(input.sizes) /\ Oversubscribed(input.sizes)) =>
        /\ dOp = "Init" => dOut = "error"
        /\ eOp = "InitFromSizes" => eOut = "error"

\* C9: the completeness check of Decoder.Init.  A length sequence within the
\* limit with a live symbol is accepted exactly when it is complete or is one
\* live symbol of length 1, and is otherwise rejected with an error.
CompletenessCheck ==
    (input.kind = "sizes" /\ WithinLimit(input.sizes) /\ LiveSymbols(input.sizes) # {}
     /\ dOp = "Init") =>
        LET S == input.sizes
            good == Complete(S) \/ (Cardinality(LiveSymbols(S)) = 1 /\ MaxLength(S) = 1)
        IN  IF good THEN dOut = "ok" ELSE dOut = "error"

\* C10: the length bound is inclusive.  A length above maxBitsPerCode makes
\* Decoder.Init and Encoder.InitFromSizes return an error; a complete sequence
\* with every length in 0..maxBitsPerCode is accepted by both.
LengthBoundInclusive ==
    input.kind = "sizes" =>
        /\ ~WithinLimit(input.sizes) =>
              /\ dOp = "Init" => dOut = "error"
              /\ eOp = "InitFromSizes" => eOut = "error"
        /\ (WithinLimit(input.sizes) /\ Complete(input.sizes)) =>
              /\ dOp = "Init" => dOut = "ok"
              /\ eOp = "InitFromSizes" => eOut = "ok"

\* C11: the empty code is accepted on every lengths-driven path.  For a length
\* sequence with no nonzero entry, Decoder.Init, Encoder.InitFromSizes and
\* Decoder.Encoder() succeed without error or panic; afterwards Encode of every
\* symbol has Size 0 and Decode of every code is (InvalidSymbol, 0, 0).
EmptyCodeAccepted ==
    (input.kind = "sizes" /\ LiveSymbols(input.sizes) = {}) =>
        /\ dOp = "Init" =>
              /\ dOut = "ok"
              /\ \A hc \in ProbeCodes : Decode(d, hc) = <<InvalidSymbol, 0, 0>>
        /\ eOp = "InitFromSizes" =>
              /\ eOut = "ok"
              /\ \A s \in 0 .. (Len(input.sizes) - 1) : Encode(e, s).Size = 0
        /\ (eOp = "Decoder.Encoder" /\ DecoderBuilt /\ eFrom = d) =>
              /\ eOut = "ok"
              /\ \A s \in 0 .. (Len(input.sizes) - 1) : Encode(e, s).Size = 0

\* C12: failed construction leaves an empty target.  Whenever Decoder.Init or
\* Encoder.InitFromSizes returns an error, also on an instance that was
\* initialized successfully before, the instance afterwards is the zero value:
\* no codes, no table entries, MinSize = MaxSize = 0.
FailedConstructionLeavesEmpty ==
    /\ (dOp = "Init" /\ dOut = "error") =>
           /\ DOMAIN d.table = {} /\ DecoderSizeBySymbol(d) = <<>>
           /\ DecoderMinSize(d) = 0 /\ DecoderMaxSize(d) = 0
    /\ (eOp = "InitFromSizes" /\ eOut = "error") =>
           /\ e.codes = <<>>
           /\ EncoderMinSize(e) = 0 /\ EncoderMaxSize(e) = 0

\* C13: the frequency-driven path never silently yields an invalid code.  The
\* Encoder built by Encoder.Init exports, by SizeBySymbol, only lengths in
\* 0..maxBitsPerCode, also when the Huffman tree of the frequencies is deeper
\* than maxBitsPerCode.
InitLengthsWithinLimit ==
    (eOp = "Init" /\ eOut = "ok") =>
        \A s \in 0 .. (Len(e.codes) - 1) :
            EncoderSizeBySymbol(e)[s + 1] \in 0 .. maxBitsPerCode

\* the symbols of nonzero frequency
LiveFrequencies(frequencies) ==
    {s \in 0 .. (Len(frequencies) - 1) : frequencies[s + 1] # U32(0)}

\* e was built by Encoder.Init from input.numSymbols and input.frequencies
EncoderBuiltFromFrequencies == eOp = "Init" /\ eOut = "ok"

\* C14: completeness of tree-built lengths.  For a frequency array with at
\* least two nonzero frequencies, the lengths Encoder.Init produces satisfy
\* sum over the live symbols of 2^(maxSize-length) = 2^maxSize, maxSize being
\* the longest produced length, and every symbol of frequency 0, or beyond the
\* end of the frequency array, gets length 0.
TreeLengthsComplete ==
    (EncoderBuiltFromFrequencies
     /\ Cardinality(LiveFrequencies(input.frequencies)) >= 2) =>
        LET S == EncoderSizeBySymbol(e)
            live == LiveFrequencies(input.frequencies)
            M == CHOOSE m \in {S[i] : i \in 1 .. Len(S)} :
                     \A i \in 1 .. Len(S) : S[i] <= m
        IN  /\ Len(S) = input.numSymbols
            /\ \A s \in live : S[s + 1] >= 1
            /\ SumSeq([i \in 1 .. Len(S) |->
                          IF (i - 1) \in live THEN Pow2(M - S[i]) ELSE 0]) = Pow2(M)
            /\ \A s \in 0 .. (Len(S) - 1) : s \notin live => S[s + 1] = 0

TreeLengthsCompleteWitness ==
    /\ EncoderBuiltFromFrequencies
    /\ input.frequencies = [i \in 1 .. 5 |-> U32(Fib(i))]
    /\ EncoderSizeBySymbol(e) = <<4, 4, 3, 2, 1>>

\* the (Size, Bits) pairs TestEncoder_Encode expects for symbols 0..5
TestCodes ==
    <<MakeCode(4, 7), MakeCode(4, 15), MakeCode(3, 1),
      MakeCode(3, 5), MakeCode(3, 3), MakeCode(1, 0)>>

FrequencyDegenerate ==
    EncoderBuiltFromFrequencies =>
        LET live == LiveFrequencies(input.frequencies)
            lower == CHOOSE s \in live : \A t \in live : s <= t
            higher == CHOOSE s \in live : \A t \in live : t <= s
        IN  (Cardinality(live) \in {1, 2}) =>
                /\ Len(e.codes) = input.numSymbols
                /\ Encode(e, lower) = MakeCode(1, 0)
                /\ Cardinality(live) = 2 => Encode(e, higher) = MakeCode(1, 1)
                /\ \A s \in 0 .. (input.numSymbols - 1) :
                       s \notin live => Encode(e, s).Size = 0

FrequencyDegenerateWitness ==
    /\ EncoderBuiltFromFrequencies
    /\ input.numSymbols = 3
    /\ input.frequencies = <<U32(2), U32(0), U32(1)>>
    /\ Encode(e, 0) = MakeCode(1, 0) /\ Encode(e, 2) = MakeCode(1, 1)

\* C17: a Decoder remembers its alphabet.  After Decoder.Init(S) succeeds, for
\* any S, also one of zeros only, SizeBySymbol() equals S element for element,
\* NumSymbols() is len(S) and MaxSymbol() is len(S)-1.
DecoderRemembersAlphabet ==
    DecoderBuilt =>
        /\ DecoderSizeBySymbol(d) = input.sizes
        /\ DecoderNumSymbols(d) = Len(input.sizes)
        /\ DecoderMaxSymbol(d) = Len(input.sizes) - 1

\* C18: instances are immutable after construction.  No read operation
\* (Decode, Encode, SizeBySymbol, Encoder(), Decoder()) changes the instance it
\* is called on, and a caller who overwrites an element of the slice returned
\* by Decoder.SizeBySymbol() or Encoder.SizeBySymbol(), or of the slice passed
\* to Init, does not change what later SizeBySymbol(), Decode or Encoder()
\* calls on the instance return.
InstancesImmutable ==
    [][/\ (CallDecode \/ CallEncode \/ TakeResult
           \/ CallDecoderSizeBySymbol \/ CallEncoderSizeBySymbol) => (d' = d /\ e' = e)
       /\ CallDecoderEncoder => d' = d
       /\ CallEncoderDecoder => e' = e
       /\ (OverwriteHeld \/ OverwriteArgument) =>
              /\ DecoderSizeBySymbol(d') = DecoderSizeBySymbol(d)
              /\ \A hc \in ProbeCodes : Decode(d', hc) = Decode(d, hc)
              /\ DecoderEncoder(d') = DecoderEncoder(d)
              /\ EncoderSizeBySymbol(e') = EncoderSizeBySymbol(e)
              /\ e' = e]_vars

\* lo and hi are the shortest and the longest nonzero length of S; 0 and 0
\* when S has no nonzero length
TrueBounds(S, lo, hi) ==
    IF LiveSymbols(S) = {} THEN lo = 0 /\ hi = 0
    ELSE lo = MinLength(S) /\ hi = MaxLength(S)

\* C19: the cached size bounds are the true bounds.  For every constructed
\* Encoder (by Init or InitFromSizes) and Decoder, MinSize() and MaxSize() are
\* the shortest and the longest nonzero length of SizeBySymbol(); an Encoder
\* and the Decoder mirrored from it report the same MinSize and MaxSize, also
\* with zero or one live symbol.
CachedBoundsTrue ==
    /\ (eOut = "ok" /\ eOp \in {"Init", "InitFromSizes"}) =>
           TrueBounds(EncoderSizeBySymbol(e), EncoderMinSize(e), EncoderMaxSize(e))
    /\ (dOut = "ok" /\ dOp \in {"Init", "Encoder.Decoder"}) =>
           TrueBounds(DecoderSizeBySymbol(d), DecoderMinSize(d), DecoderMaxSize(d))
    /\ (dOut = "ok" /\ dOp = "Encoder.Decoder" /\ dFrom = e) =>
           /\ DecoderMinSize(d) = EncoderMinSize(e)
           /\ DecoderMaxSize(d) = EncoderMaxSize(e)

\* the canonical running value of live symbol s, as a number: the first code
\* of its length plus the count of the smaller symbols of that length
CanonicalValue(S, s) ==
    FirstCode(S, S[s + 1])
    + Cardinality({t \in LiveSymbols(S) : S[t + 1] = S[s + 1] /\ t < s})

----------------------------------------------------------------------------
(* Streaming decode *)

\* the reader runs on a Decoder built from a complete sequence of lengths with
\* at least two live symbols
StreamingCase ==
    /\ reader.on /\ DecoderBuilt
    /\ Complete(input.sizes)
    /\ Cardinality(LiveSymbols(input.sizes)) >= 2

\* C21: a reader that starts from the empty code and appends arbitrary bits one
\* at a time, on a Decoder built from a complete sequence of lengths with at
\* least two live symbols, never receives (InvalidSymbol, 0, 0); every result
\* before the exact match is partial and comes with fewer than MaxSize() bits
\* read, so that the match comes after at most MaxSize() bits; the match comes
\* after at least MinSize() bits; and the length of the match lies within the
\* bounds of every partial result received before it.
BoundedStreaming ==
    StreamingCase =>
        /\ ~(reader.symbol = InvalidSymbol /\ reader.minSize = 0 /\ reader.maxSize = 0)
        /\ Partial(reader) =>
              /\ reader.hc.Size < DecoderMaxSize(d)
              /\ reader.hc.Size < reader.minSize
              /\ reader.minSize <= reader.maxSize
        /\ ~Partial(reader) =>
              /\ reader.symbol \in LiveSymbols(input.sizes)
              /\ DecoderMinSize(d) <= reader.hc.Size
              /\ reader.hc.Size <= DecoderMaxSize(d)
              /\ \A b \in reader.seen :
                    b[1] <= reader.hc.Size /\ reader.hc.Size <= b[2]

\* the reader of the test's code has its match after four bits, and the partial
\* results before it had different bounds
BoundedStreamingWitness ==
    /\ StreamingCase
    /\ input.sizes = TestSizes
    /\ ~Partial(reader)
    /\ reader.hc.Size = 4
    /\ Cardinality(reader.seen) >= 3

----------------------------------------------------------------------------
(* The short-circuit of fillTable *)

\* the table of a Decoder built from a valid sequence of lengths is being
\* filled again
RefillCase ==
    /\ refill.on /\ DecoderBuilt
    /\ WithinLimit(input.sizes)
    /\ Complete(input.sizes) \/
           (Cardinality(LiveSymbols(input.sizes)) = 1 /\ MaxLength(input.sizes) = 1)

\* C22: the early break of fillTable is a pure optimization.  Whatever codes
\* of a valid sequence of lengths have been inserted so far, and in whatever
\* order, the table filled by fillTable is equal, key for key and value for
\* value, to the table filled by walking every inserted code up to the empty
\* prefix; and once every code is inserted, in whatever order, the table is
\* the one Decoder.Init has built in the order of the symbols.
ShortCircuitPure ==
    RefillCase =>
        /\ refill.table = refill.walked
        /\ refill.left = {} => refill.table = d.table /\ refill.walked = d.table

\* the six codes of the test are all inserted, and the table holds the
\* summaries of the prefixes
ShortCircuitPureWitness ==
    /\ RefillCase
    /\ input.sizes = TestSizes
    /\ refill.left = {}
    /\ Cardinality(DOMAIN refill.table) = 11
    /\ refill.table[ZeroCode] = decoderData(InvalidSymbol, 1, 4)

----------------------------------------------------------------------------
(* The tree builder *)

\* firstPass has just merged two nodes
Merged == pass.on /\ pass.a # NoNode

\* the synthetic node the last merge has pushed
Pushed == CHOOSE n \in pass.h : n.symbol = pass.nextSyntheticSymbol - 1

\* a + b without wrap-around, as a number of units of 2^16 and a rest
ExactSum(a, b) ==
    [hi |-> a.hi + b.hi + ((a.lo + b.lo) \div Half), lo |-> (a.lo + b.lo) % Half]

\* min(a + b, 2^32 - 1)
SaturatedSum(a, b) ==
    IF ExactSum(a, b).hi >= Half THEN MaxUint32 ELSE ExactSum(a, b)

\* C23: frequency sums saturate.  Whenever firstPass merges two heap nodes of
\* frequencies a and b, the frequency of the synthetic node is
\* min(a + b, 2^32 - 1), the sum taken without wrap-around, and so it is not
\* smaller than the frequency of either child.
FrequencySumsSaturate ==
    Merged =>
        /\ \E n \in pass.h : n.symbol = pass.nextSyntheticSymbol - 1
        /\ Pushed.freq = SaturatedSum(pass.a.freq, pass.b.freq)
        /\ ~U32Less(Pushed.freq, pass.a.freq)
        /\ ~U32Less(Pushed.freq, pass.b.freq)

\* a merge whose exact sum does not fit 32 bits, and is not of the form
\* 2^32 - 1 + x either
FrequencySumsSaturateWitness ==
    /\ Merged
    /\ ExactSum(pass.a.freq, pass.b.freq).hi >= Half
    /\ pass.a.freq # MaxUint32 /\ pass.b.freq # MaxUint32
    /\ Pushed.freq = MaxUint32

\* the node x is before the node y in the order the heap is meant to pop:
\* by frequency; at equal frequency a natural symbol before a synthetic one,
\* natural symbols by index, synthetic ones by their order of creation
PopsBefore(x, y) ==
    \/ U32Less(x.freq, y.freq)
    \/ /\ x.freq = y.freq
       /\ \/ x.symbol >= 0 /\ y.symbol < 0
          \/ x.symbol >= 0 /\ y.symbol >= 0 /\ x.symbol < y.symbol
          \/ x.symbol < 0 /\ y.symbol < 0
             /\ x.symbol - MinInt32 < y.symbol - MinInt32

\* the Encoder that the walk of the finished tree and secondPass give
EncoderOfTree ==
    LET root == CHOOSE n \in pass.h : TRUE
        st == walkTree(pass.syntheticSymbols,
                       [stack |-> <<[s |-> root.symbol, x |-> 0]>>,
                        codes |-> [i \in 1 .. input.numSymbols |-> ZeroCode],
                        hasMinMax |-> FALSE, minSize |-> 0, maxSize |-> 0])
    IN  [codes |-> secondPass(st.codes).codes,
         minSize |-> st.minSize, maxSize |-> st.maxSize]

\* C24: deterministic tie-breaking in the tree builder.  The two nodes of a
\* merge are popped in ascending (frequency, identifier) order and before every
\* node left in the heap: at equal frequency natural symbols before synthetic
\* nodes, natural symbols by index, synthetic nodes by order of creation.  The
\* synthetic identifiers stay negative, the natural ones are symbols of the
\* frequency array, and no two nodes of the heap have the same identifier, so
\* the heap has one least node whatever its layout; and the Encoder that
\* Encoder.Init returns is the one the finished tree determines.
DeterministicTieBreaking ==
    pass.on =>
        /\ \A n \in pass.h :
              IF n.symbol < 0
              THEN MinInt32 <= n.symbol /\ n.symbol < pass.nextSyntheticSymbol
              ELSE n.symbol \in LiveFrequencies(input.frequencies)
        /\ pass.nextSyntheticSymbol <= 0
        /\ \A m, n \in pass.h : m.symbol = n.symbol => m = n
        /\ \E m \in pass.h : \A n \in pass.h \ {m} : PopsBefore(m, n)
        /\ Merged =>
              /\ PopsBefore(pass.a, pass.b)
              /\ \A n \in pass.h \ {Pushed} : PopsBefore(pass.b, n)
        /\ (Cardinality(pass.h) = 1 /\ EncoderBuiltFromFrequencies) =>
              e = EncoderOfTree

\* a merge that pops a natural symbol and a synthetic node of the same
\* frequency, and leaves a node in the heap
DeterministicTieBreakingWitness ==
    /\ Merged
    /\ pass.a.freq = pass.b.freq
    /\ pass.a.symbol >= 0 /\ pass.b.symbol < 0
    /\ pass.h \ {Pushed} # {}

----------------------------------------------------------------------------
(* The code space of long arguments *)

\* the code space the lengths consume, sum of countArray[L] * 2^(maxSize-L)
\* without wrap-around, in units of 2^16 and a rest
ConsumedSpace(h) ==
    LET term(L, n) == IF L \in ArrayIndex /\ L <= h.maxSize
                      THEN n * Pow2(h.maxSize - L) ELSE 0
        hi == SumSeq([i \in 1 .. maxBitsPerCode |->
                        IF (i - 1) \in ArrayIndex
                        THEN term(i - 1, h.countArray[i - 1] \div Half) ELSE 0])
        lo == SumSeq([i \in 1 .. maxBitsPerCode |->
                        IF (i - 1) \in ArrayIndex
                        THEN term(i - 1, h.countArray[i - 1] % Half) ELSE 0])
    IN  [hi |-> hi + (lo \div Half), lo |-> lo % Half]

\* the lengths consume exactly the code space 2^maxSize
ExactlyComplete(h) ==
    ConsumedSpace(h) = [hi |-> 0, lo |-> Pow2(h.maxSize)]

\* one symbol, of length 1
SingleBit(h) ==
    h.maxSize = 1 /\ h.countArray[1] = 1

\* C25: the 32-bit accumulator of the code space cannot wrap into acceptance.
\* For every sequence of lengths, of up to 2^31 - 1 symbols, whose consumed
\* code space taken without wrap-around differs from 2^maxSize and which is
\* not the single symbol of length 1, Decoder.Init returns an error, also
\* where that sum is congruent to 2^maxSize modulo 2^32.
AccumulatorCannotWrap ==
    (hist.out # "none" /\ ~ExactlyComplete(hist) /\ ~SingleBit(hist)) =>
        hist.out = "error"

====
